---- MODULE Spec2Model ----
(***************************************************************************)
(* A model of src/src/sonic.py: the command-line driver (__main__), the    *)
(* batch orchestration (analyze_directory, multiprocessing.Pool.map), the  *)
(* per-window pipeline (_analyze_file), the summary file it appends to,    *)
(* and the quality-control function spoleto.                               *)
(*                                                                         *)
(* Numeric data are abstracted to what decides control flow: whether a     *)
(* directory entry is a loadable csv file, and whether a loaded window has *)
(* usable samples.  A summary line is the sequence of the names of the     *)
(* fields that the code formats into it.                                   *)
(***************************************************************************)
EXTENDS Integers, Sequences, FiniteSets, TLC

VARIABLES
    pc,          \* position of the main process
    opts,        \* parsed command line (argparse namespace), <<>> for a direct call
    cfg,         \* keyword arguments of analyze_directory, <<>> before __main__ built them
    listing,     \* os.listdir(parent): the kind of each directory entry
    summary,     \* lines of the summary file, <<>> while it does not exist
    processes,   \* size of the multiprocessing.Pool, 0 before it is created
    multiproc,   \* the multiproc flag handed to every task
    queue,       \* chunks of task numbers waiting in the pool's task queue
    worker,      \* worker[w]: tasks left of the chunk worker w is running
    win,         \* win[i]: progress of the task for directory entry i
    numberLeft,  \* MapResult._number_left: chunks not yet reported
    success,     \* MapResult._success: no chunk has raised so far
    call         \* a call of a pure function: its name, arguments and result

vars == <<pc, opts, cfg, listing, summary, processes, multiproc, queue, worker,
          win, numberLeft, success, call>>

(***************************************************************************)
(* Bounds.                                                                 *)
(***************************************************************************)
\* directory entries in the runs that explore every option combination
MaxEntries == 1
\* directory entries in the runs that explore the worker pool
MaxFiles == 5
\* largest nproc tried
MaxProc == 2
\* largest deviation handed to spoleto, in tenths
MaxDev == 12

(***************************************************************************)
(* Directory entries.                                                      *)
(*   "csv"     a regular .csv file that load_frame reads and that has      *)
(*             usable samples in every channel                             *)
(*   "sparse"  a regular .csv file that load_frame reads, in which a       *)
(*             channel needed for the fluxes has fewer than 2 non-missing  *)
(*             samples (to_numeric coerced the rest to NaN)                *)
(*   "corrupt" a regular .csv file on which load_frame raises (unparsable  *)
(*             timestamps) or that yields no rows (df.index[0] raises)     *)
(*   "other"   not a regular file with a '.csv' suffix                     *)
(***************************************************************************)
Kinds == {"csv", "sparse", "corrupt", "other"}

BatchKinds == {"csv", "corrupt", "other"}

SeqsUpTo(S, n) == UNION {[1..k -> S] : k \in 0..n}

NoCall == [fn |-> "none", args |-> <<>>, ret |-> <<>>]

(***************************************************************************)
(* The summary header, analyze_directory lines 722-742.                    *)
(***************************************************************************)
HeaderColumns_plotflux(c) ==
    <<"start", "end", "mean_u", "mean_v", "mean_w">>
    \o (IF c.slowfile # "None" THEN <<"slow_mean_u", "slow_mean_v">> ELSE <<>>)
    \o (IF c.matchfile # "None"
        THEN <<"alpha_mean", "alpha_median", "Rib_mean", "Rib_median",
               "lapse_mean", "lapse_median">>
        ELSE <<>>)
    \o (IF c.slowfile # "None"
        THEN <<"rms", "slow_rms", "ti", "slow_ti", "tke">>
        ELSE <<"rms", "ti", "tke">>)
    \o (IF c.plotflux
        THEN <<"Rif", "wu", "wv", "wt", "L", "zeta", "ustar", "ugrad">>
        ELSE <<>>)
    \o (IF c.savescales THEN <<"length_scale">> ELSE <<>>)
    \o (IF c.direction THEN <<"delta_dir">> ELSE <<>>)
    \o (IF c.qc
        THEN <<"rms_change", "ss_dev", "itc_dev", "sflag", "urflag">>
        ELSE <<>>)

HeaderColumns(c) ==
    <<"start", "end", "mean_u", "mean_v", "mean_w">>
    \o (IF c.slowfile # "None" THEN <<"slow_mean_u", "slow_mean_v">> ELSE <<>>)
    \o (IF c.matchfile # "None"
        THEN <<"alpha_mean", "alpha_median", "Rib_mean", "Rib_median",
               "lapse_mean", "lapse_median">>
        ELSE <<>>)
    \o (IF c.slowfile # "None"
        THEN <<"rms", "slow_rms", "ti", "slow_ti", "tke">>
        ELSE <<"rms", "ti", "tke">>)
    \o (IF c.saveflux
        THEN <<"Rif", "wu", "wv", "wt", "L", "zeta", "ustar", "ugrad">>
        ELSE <<>>)
    \o (IF c.savescales THEN <<"length_scale">> ELSE <<>>)
    \o (IF c.direction THEN <<"delta_dir">> ELSE <<>>)
    \o (IF c.qc
        THEN <<"rms_change", "ss_dev", "itc_dev", "sflag", "urflag">>
        ELSE <<>>)

HeaderLine(c) == [kind |-> "header", id |-> 0, fields |-> HeaderColumns(c)]

(***************************************************************************)
(* analyze_directory lines 752-762: a reference file is read when its      *)
(* path is truthy; the frame handed to the tasks is None otherwise.        *)
(***************************************************************************)
df_match(c) == IF c.matchfile # "None" THEN "frame" ELSE "None"

df_slow(c) == IF c.slowfile # "None" THEN "frame" ELSE "None"

(***************************************************************************)
(* The per-window pipeline, _analyze_file lines 534-690, as a chain of     *)
(* steps over a frame of the function's local state:                       *)
(*   stages   the stages executed so far, in order                         *)
(*   row      summaryinfo: the names of the fields appended so far         *)
(*   defined  the local names bound so far, among those that later code    *)
(*            reads without binding them on every path                     *)
(*   derived  what compute_fluxes returned: "none", "values" or "nan"      *)
(*   exc      the exception that ended the function, "none" otherwise      *)
(* A step leaves a frame that already raised unchanged.                    *)
(***************************************************************************)
Raise_swallowed(f, e) == f

Raise(f, e) == [f EXCEPT !.exc = e]

Ran(f, stage) == [f EXCEPT !.stages = Append(@, stage)]

Bind(f, name) == [f EXCEPT !.defined = @ \cup {name}]

Fields(f, fs) == [f EXCEPT !.row = @ \o fs]

\* lines 534-539: load_frame returned and the window bounds were read
Loaded ==
    [stages |-> <<"Loaded">>, row |-> <<>>, defined |-> {}, derived |-> "none",
     exc |-> "none"]

\* lines 541-554: slice the slow data to the window; start summaryinfo
SliceAndStart(c, f) ==
    LET g == IF df_slow(c) # "None" THEN Ran(f, "SlowSliced") ELSE f
        h == Fields(g, <<"starttime", "endtime", "mean_Ux", "mean_Uy", "mean_Uz">>)
    IN  IF df_slow(c) # "None"
        THEN Fields(h, <<"slow_mean_Ux", "slow_mean_Uy">>)
        ELSE h

\* lines 556-563: alignment; delta_dir is bound only with slow data
Align(c, f) ==
    IF f.exc # "none" \/ ~c.align THEN f
    ELSE LET g == Bind(Ran(f, "Aligned"), "dir_to_align")
         IN  IF df_slow(c) # "None" THEN Bind(g, "delta_dir") ELSE g

\* lines 592-606: match alpha, bulk Ri and lapse rate
Match(c, f) ==
    IF f.exc # "none" \/ df_match(c) = "None" THEN f
    ELSE Fields(Ran(f, "Matched"),
                <<"mean_alpha", "median_alpha", "mean_ri", "median_ri",
                  "mean_lapse", "median_lapse">>)

RmsTke_fastOnly(c, f) ==
    IF f.exc # "none" THEN f
    ELSE Fields(f, <<"rms", "ti", "tke">>)

\* lines 608-623: rms, turbulence intensity, tke, autocorrelations
RmsTke(c, f) ==
    IF f.exc # "none" THEN f
    ELSE Fields(IF df_slow(c) # "None"
                THEN Fields(f, <<"rms", "rms_slow", "ti", "ti_slow">>)
                ELSE Fields(f, <<"rms", "ti">>),
                <<"tke">>)

\* compute_fluxes, lines 332-367: means, fluctuation products and derived
\* parameters by arithmetic alone; on a channel without usable samples the
\* means are NaN and so is everything derived; nothing is raised
compute_fluxes(kind) == IF kind = "sparse" THEN "nan" ELSE "values"

\* lines 643-658: fluxes when plotflux or saveflux; flux fields when saveflux
Flux(c, kind, f) ==
    IF f.exc # "none" THEN f
    ELSE LET g == IF c.plotflux \/ c.saveflux
                  THEN [Bind(Ran(f, "Fluxed"), "derived")
                            EXCEPT !.derived = compute_fluxes(kind)]
                  ELSE f
         IN  IF c.saveflux
             THEN Fields(g, <<"Flux Ri", "Mean eddy u momentum flux",
                              "Mean eddy v momentum flux", "Mean eddy heat flux",
                              "Obukhov length", "zeta", "Friction velocity",
                              "Vertical wind gradient">>)
             ELSE g

\* lines 660-670: integral scales
Scales(c, f) ==
    IF f.exc # "none" \/ ~c.savescales THEN f
    ELSE Fields(Bind(Ran(f, "ScalesComputed"), "scales"), <<"length_scale">>)

\* lines 672-673: delta_dir is read
Direction(c, f) ==
    IF f.exc # "none" \/ ~c.direction THEN f
    ELSE IF "delta_dir" \notin f.defined THEN Raise(f, "NameError: delta_dir")
    ELSE Fields(f, <<"delta_dir">>)

\* lines 675-684: quality control; derived is read
QC(c, f) ==
    IF f.exc # "none" \/ ~c.qc THEN f
    ELSE IF "derived" \notin f.defined THEN Raise(f, "NameError: derived")
    ELSE Fields(Ran(f, "QCChecked"),
                <<"rms_change", "covar_instation", "itc_deviation",
                  "spoleto_flag", "adf_flag">>)

\* lines 686-690: the closing loop reads scales
LogScales(c, f) ==
    IF f.exc # "none" THEN f
    ELSE IF "scales" \notin f.defined THEN Raise(f, "NameError: scales")
    ELSE f

analyze_file_matchFirst(c, kind) ==
    LogScales(c, QC(c, Direction(c, Scales(c, Flux(c, kind,
        RmsTke(c, Align(c, Match(c, SliceAndStart(c, Loaded)))))))))

analyze_file(c, kind) ==
    LogScales(c, QC(c, Direction(c, Scales(c, Flux(c, kind,
        RmsTke(c, Match(c, Align(c, SliceAndStart(c, Loaded)))))))))

(***************************************************************************)
(* append_summary, lines 510-515: the line is added at the end of the file *)
(* when the file opened in mode 'a' is closed.                             *)
(***************************************************************************)
append_summary_truncating(file, line) == <<line>>

append_summary(file, line) == Append(file, line)

(***************************************************************************)
(* analyze_directory lines 744-750 and 767: the size of the pool.          *)
(* nproc is [isInt, val]: whether type(nproc) is int, and its value.       *)
(***************************************************************************)
PoolSizeOfMachine(nproc) == MaxProc

PoolSize(nproc) == IF nproc.isInt /\ nproc.val > 1 THEN nproc.val ELSE 1

Multiproc(nproc) == nproc.isInt /\ nproc.val > 1

(***************************************************************************)
(* Pool.map, line 770: the tasks are cut into chunks of                    *)
(* ceil(len / (4 * processes)) consecutive tasks, all put on the task      *)
(* queue at once.                                                          *)
(***************************************************************************)
ChunkSize(n, p) ==
    IF n = 0 THEN 0
    ELSE (n \div (4 * p)) + (IF n % (4 * p) # 0 THEN 1 ELSE 0)

RECURSIVE ChunksFrom(_, _, _)
ChunksFrom(first, n, size) ==
    IF first > n THEN <<>>
    ELSE LET last == IF first + size - 1 < n THEN first + size - 1 ELSE n
         IN  <<[k \in 1..(last - first + 1) |-> first + k - 1]>>
             \o ChunksFrom(last + 1, n, size)

Chunks(n, p) == IF n = 0 THEN <<>> ELSE ChunksFrom(1, n, ChunkSize(n, p))

Queued_pastSuffixTest ==
    [status |-> "loaded", stages |-> <<"Loaded">>, row |-> <<>>,
     derived |-> "none", exc |-> "none"]

Queued == [status |-> "queued", stages |-> <<>>, row |-> <<>>, derived |-> "none",
           exc |-> "none"]

(***************************************************************************)
(* The main process.                                                       *)
(***************************************************************************)
\* __main__, lines 814-906: from the command line to the keyword arguments
MainConfig(o) ==
    LET align     == ~o.noalign
        flux0     == ~o.noflux
        \* args.match is a non-empty path, so it is truthy
        direction == o.direction /\ align
        qc        == IF o.qc /\ ~flux0 THEN FALSE ELSE o.qc
        nomatch   == o.nomatch \/ ~o.matchExists
        noslow    == o.noslow \/ ~o.slowExists
        flux      == IF flux0 /\ ~align THEN FALSE ELSE flux0
    IN  [slowfile    |-> IF noslow THEN "None" ELSE "path",
         matchfile   |-> IF nomatch THEN "None" ELSE "path",
         align       |-> align,
         plotflux    |-> flux,
         saveflux    |-> flux,
         savescales  |-> TRUE,
         direction   |-> direction,
         qc          |-> qc,
         summaryfile |-> "path",
         nproc       |-> [isInt |-> TRUE, val |-> o.nproc]]

ParseArgs ==
    /\ pc = "args"
    /\ cfg' = MainConfig(opts)
    /\ pc' = "begin"
    /\ UNCHANGED <<opts, listing, summary, processes, multiproc, queue, worker,
                   win, numberLeft, success, call>>

\* analyze_directory, lines 720-742
WriteHeader ==
    /\ pc = "begin"
    /\ summary' = IF cfg.summaryfile # "None" THEN <<HeaderLine(cfg)>> ELSE summary
    /\ pc' = "headed"
    /\ UNCHANGED <<opts, cfg, listing, processes, multiproc, queue, worker,
                   win, numberLeft, success, call>>

\* analyze_directory, lines 744-770: the pool is created and every task is
\* handed to it
Dispatch ==
    /\ pc = "headed"
    /\ processes' = PoolSize(cfg.nproc)
    /\ multiproc' = Multiproc(cfg.nproc)
    /\ queue' = Chunks(Len(listing), processes')
    /\ numberLeft' = Len(queue')
    /\ worker' = [w \in 1..processes' |-> <<>>]
    /\ win' = [i \in 1..Len(listing) |-> Queued]
    /\ success' = TRUE
    /\ pc' = "mapping"
    /\ UNCHANGED <<opts, cfg, listing, summary, call>>

\* pool.map returns once every chunk has reported, and raises the first
\* exception a task raised
MapReturn ==
    /\ pc = "mapping"
    /\ numberLeft = 0
    /\ pc' = IF success THEN "mapped" ELSE "raised"
    /\ UNCHANGED <<opts, cfg, listing, summary, processes, multiproc, queue,
                   worker, win, numberLeft, success, call>>

\* analyze_directory, lines 771-776
CloseJoin ==
    /\ pc = "mapped"
    /\ pc' = "completed"
    /\ UNCHANGED <<opts, cfg, listing, summary, processes, multiproc, queue,
                   worker, win, numberLeft, success, call>>

(***************************************************************************)
(* The workers of the pool.                                                *)
(***************************************************************************)
\* the workers are interchangeable processes: of the idle ones, the one of
\* lowest number is taken to be the one that gets the next chunk
TakeChunk(w) ==
    /\ pc = "mapping"
    /\ worker[w] = <<>>
    /\ \A v \in 1..(w - 1) : worker[v] # <<>>
    /\ queue # <<>>
    /\ worker' = [worker EXCEPT ![w] = Head(queue)]
    /\ queue' = Tail(queue)
    /\ UNCHANGED <<pc, opts, cfg, listing, summary, processes, multiproc, win,
                   numberLeft, success, call>>

\* the task returned: the worker goes on with the rest of its chunk, and
\* reports the chunk when nothing is left of it
Returned(w) ==
    /\ worker' = [worker EXCEPT ![w] = Tail(@)]
    /\ numberLeft' = IF Len(worker[w]) = 1 THEN numberLeft - 1 ELSE numberLeft
    /\ success' = success

\* the task raised: mapstar's list(map(...)) ends, the rest of the chunk is
\* never run, and the chunk reports the exception
Raised(w, i, f, e) ==
    /\ win' = [j \in DOMAIN win |->
                 IF j = i THEN [status |-> "failed", stages |-> f.stages,
                                row |-> f.row, derived |-> f.derived, exc |-> e]
                 ELSE IF \E k \in 2..Len(worker[w]) : worker[w][k] = j
                      THEN [win[j] EXCEPT !.status = "dropped"]
                      ELSE win[j]]
    /\ worker' = [worker EXCEPT ![w] = <<>>]
    /\ numberLeft' = numberLeft - 1
    /\ success' = FALSE

\* _analyze_file, lines 517-539
StartTask(w) ==
    /\ worker[w] # <<>>
    /\ LET i == Head(worker[w]) IN
        /\ win[i].status = "queued"
        /\ IF listing[i] = "other"
           THEN /\ win' = [win EXCEPT ![i].status = "skipped"]
                /\ Returned(w)
           ELSE IF listing[i] = "corrupt"
           THEN Raised(w, i, win[i], "load_frame")
           ELSE /\ win' = [win EXCEPT ![i].status = "loaded",
                                      ![i].stages = Loaded.stages]
                /\ UNCHANGED <<worker, numberLeft, success>>
    /\ UNCHANGED <<pc, opts, cfg, listing, summary, processes, multiproc, queue,
                   call>>

\* _analyze_file, lines 541-690
RunStages(w) ==
    /\ worker[w] # <<>>
    /\ LET i == Head(worker[w])
           f == analyze_file(cfg, listing[i])
       IN
        /\ win[i].status = "loaded"
        /\ IF f.exc # "none"
           THEN Raised(w, i, f, f.exc)
           ELSE /\ win' = [win EXCEPT ![i] = [status |-> "staged",
                                              stages |-> f.stages,
                                              row |-> f.row,
                                              derived |-> f.derived,
                                              exc |-> "none"]]
                /\ UNCHANGED <<worker, numberLeft, success>>
    /\ UNCHANGED <<pc, opts, cfg, listing, summary, processes, multiproc, queue,
                   call>>

\* append_summary, line 512: open(filename, 'a')
AppendOpen(w) ==
    /\ worker[w] # <<>>
    /\ LET i == Head(worker[w]) IN
        /\ win[i].status = "staged"
        /\ IF cfg.summaryfile = "None"
           THEN Raised(w, i, win[i], "TypeError: open(None)")
           ELSE /\ win' = [win EXCEPT ![i].status = "open"]
                /\ UNCHANGED <<worker, numberLeft, success>>
    /\ UNCHANGED <<pc, opts, cfg, listing, summary, processes, multiproc, queue,
                   call>>

\* append_summary, lines 513-515: write and close; _analyze_file returns
AppendWrite(w) ==
    /\ worker[w] # <<>>
    /\ LET i == Head(worker[w]) IN
        /\ win[i].status = "open"
        /\ summary' = append_summary(summary,
                          [kind |-> "row", id |-> i, fields |-> win[i].row])
        /\ win' = [win EXCEPT ![i].status = "done",
                              ![i].stages = Append(@, "Summarized")]
        /\ Returned(w)
    /\ UNCHANGED <<pc, opts, cfg, listing, processes, multiproc, queue, call>>

(***************************************************************************)
(* Quality control: spoleto, lines 464-471.                                *)
(* A float is [nan, tenths]: NaN, or a number given in tenths.  Every      *)
(* comparison with NaN is false, and max(a, b) returns b only if b > a.    *)
(***************************************************************************)
\* the threshold 0.3 of line 466, in tenths
HighQualityBelow == 3
\* the threshold 1. of line 468, in tenths
ModerateQualityBelow == 10

NaN == [nan |-> TRUE, tenths |-> 0]

Num(t) == [nan |-> FALSE, tenths |-> t]

Less(a, b) == ~a.nan /\ ~b.nan /\ a.tenths < b.tenths

LessEq(a, b) == ~a.nan /\ ~b.nan /\ a.tenths <= b.tenths

PyMax(a, b) == IF Less(a, b) THEN b ELSE a

spoleto_inclusive(instation, itcdev) ==
    LET keychar == PyMax(instation, itcdev)
    IN  IF LessEq(keychar, Num(HighQualityBelow)) THEN 0
        ELSE IF LessEq(keychar, Num(ModerateQualityBelow)) THEN 1
        ELSE 2

spoleto_flagsSwapped(instation, itcdev) ==
    LET keychar == PyMax(instation, itcdev)
    IN  IF Less(keychar, Num(HighQualityBelow)) THEN 0
        ELSE IF Less(keychar, Num(ModerateQualityBelow)) THEN 2
        ELSE 1

spoleto(instation, itcdev) ==
    LET keychar == PyMax(instation, itcdev)
    IN  IF Less(keychar, Num(HighQualityBelow)) THEN 0
        ELSE IF Less(keychar, Num(ModerateQualityBelow)) THEN 1
        ELSE 2

\* the deviations tried: covar_instationarity and compute_itc_deviation
\* return absolute values, or NaN
Devs == {Num(t) : t \in 0..MaxDev} \cup {NaN}

SpoletoCalls ==
    {[fn |-> "spoleto", args |-> <<a, b>>, ret |-> <<>>] :
        a \in Devs, b \in Devs}

CallSpoleto ==
    /\ pc = "call"
    /\ call.fn = "spoleto"
    /\ call' = [call EXCEPT !.ret = <<spoleto(call.args[1], call.args[2])>>]
    /\ pc' = "returned"
    /\ UNCHANGED <<opts, cfg, listing, summary, processes, multiproc, queue,
                   worker, win, numberLeft, success>>

(***************************************************************************)
(* Stationarity: adf_test, lines 487-508.                                  *)
(* The argument is what adfuller does on each channel of `which`: it       *)
(* raises, or it returns a statistic and a p-value, of which the code      *)
(* looks only at statistic > critical and pval > 0.05.                     *)
(***************************************************************************)
MaxChannels == 3

Adfuller ==
    {[raised |-> TRUE, statAbove |-> FALSE, pAbove |-> FALSE]} \cup
    {[raised |-> FALSE, statAbove |-> s, pAbove |-> p] :
        s \in BOOLEAN, p \in BOOLEAN}

critical_fails(which) == IF Len(which) > 1 THEN 2 ELSE 1

RECURSIVE adf_loop_exceptionFails(_, _, _)
adf_loop_exceptionFails(which, col, fails) ==
    IF col > Len(which)
    THEN [flag |-> IF fails = 0 THEN 0 ELSE 1, tested |-> col - 1,
          fails |-> fails]
    ELSE LET counted == IF which[col].raised \/ which[col].statAbove
                           \/ which[col].pAbove
                        THEN fails + 1 ELSE fails
         IN  IF counted >= critical_fails(which)
             THEN [flag |-> 2, tested |-> col, fails |-> counted]
             ELSE adf_loop_exceptionFails(which, col + 1, counted)

adf_test_exceptionFails(which) == adf_loop_exceptionFails(which, 1, 0)

\* the loop of lines 491-505 from channel col on; tested is the number of
\* channels adfuller was called on
RECURSIVE adf_loop(_, _, _)
adf_loop(which, col, fails) ==
    IF col > Len(which)
    THEN [flag |-> IF fails = 0 THEN 0 ELSE 1, tested |-> col - 1,
          fails |-> fails]
    ELSE IF which[col].raised
    THEN adf_loop(which, col + 1, fails)
    ELSE LET counted == IF which[col].statAbove \/ which[col].pAbove
                        THEN fails + 1 ELSE fails
         IN  IF counted >= critical_fails(which)
             THEN [flag |-> 2, tested |-> col, fails |-> counted]
             ELSE adf_loop(which, col + 1, counted)

adf_test(which) == adf_loop(which, 1, 0)

AdfCalls ==
    {[fn |-> "adf_test", args |-> <<which>>, ret |-> <<>>] :
        which \in SeqsUpTo(Adfuller, MaxChannels)}

CallAdfTest ==
    /\ pc = "call"
    /\ call.fn = "adf_test"
    /\ call' = [call EXCEPT !.ret = <<adf_test(call.args[1])>>]
    /\ pc' = "returned"
    /\ UNCHANGED <<opts, cfg, listing, summary, processes, multiproc, queue,
                   worker, win, numberLeft, success>>

(***************************************************************************)
(* Instationarity of the covariance: covariance and covar_instationarity,  *)
(* lines 429-447.  A window is a sequence of samples of Ux and Uz; it is   *)
(* twice as long as the largest number of subintervals, so that every      *)
(* subinterval has two samples or more.  A covariance is the exact         *)
(* fraction num / den with den > 0.  A numpy division by zero raises       *)
(* nothing: it gives nan for 0 / 0 and inf otherwise.                      *)
(***************************************************************************)
MaxSub == 2
\* the most columns of wind passed to a function
MaxCols == 2

\* samples that give zero, positive and negative covariances
Samples ==
    {[Ux |-> 0, Uz |-> 0], [Ux |-> 0, Uz |-> 1], [Ux |-> 0, Uz |-> 2],
     [Ux |-> 1, Uz |-> 1]}

Windows == [1..(2 * MaxSub) -> Samples]

Abs(x) == IF x < 0 THEN -x ELSE x

RECURSIVE SeqSum(_)
SeqSum(q) == IF Len(q) = 0 THEN 0 ELSE q[1] + SeqSum(Tail(q))

\* np.array_split: the first len % n parts hold one element more
array_split(df, n) ==
    LET size == Len(df) \div n
        extra == Len(df) % n
        start(k) == (k - 1) * size + (IF k - 1 < extra THEN k - 1 ELSE extra)
    IN  [k \in 1..n |->
            SubSeq(df, start(k) + 1, start(k + 1))]

\* lines 429-434, with numerator and denominator multiplied by len(df)
covariance(df) ==
    LET sumxz == SeqSum([i \in DOMAIN df |-> df[i].Ux * df[i].Uz])
        sumx == SeqSum([i \in DOMAIN df |-> df[i].Ux])
        sumz == SeqSum([i \in DOMAIN df |-> df[i].Uz])
    IN  [num |-> Len(df) * sumxz - sumx * sumz,
         den |-> Len(df) * (Len(df) - 1)]

RECURSIVE FracSum(_)
FracSum(fs) ==
    IF Len(fs) = 0 THEN [num |-> 0, den |-> 1]
    ELSE LET rest == FracSum(Tail(fs))
         IN  [num |-> fs[1].num * rest.den + rest.num * fs[1].den,
              den |-> fs[1].den * rest.den]

\* lines 436-447; divided tells that line 446 evaluated the quotient
covar_instationarity(df, subintervals) ==
    LET subdfs == array_split(df, subintervals)
        covs == [k \in DOMAIN subdfs |-> covariance(subdfs[k])]
        total == FracSum(covs)
        meancov == [num |-> total.num, den |-> total.den * subintervals]
        fullcov == covariance(df)
        diff == [num |-> meancov.num * fullcov.den
                            - fullcov.num * meancov.den,
                 den |-> meancov.den * fullcov.den]
    IN  IF fullcov.num = 0
        THEN [divided |-> TRUE,
              kind |-> IF diff.num = 0 THEN "nan" ELSE "inf",
              num |-> 0, den |-> 1]
        ELSE [divided |-> TRUE, kind |-> "number",
              num |-> Abs(diff.num * fullcov.den),
              den |-> Abs(diff.den * fullcov.num)]

CovarCalls ==
    {[fn |-> "covar_instationarity", args |-> <<df, subintervals>>,
      ret |-> <<>>] :
        df \in Windows, subintervals \in 1..MaxSub}

CallCovarInstationarity ==
    /\ pc = "call"
    /\ call.fn = "covar_instationarity"
    /\ call' = [call EXCEPT !.ret =
                   <<covar_instationarity(call.args[1], call.args[2])>>]
    /\ pc' = "returned"
    /\ UNCHANGED <<opts, cfg, listing, summary, processes, multiproc, queue,
                   worker, win, numberLeft, success>>

(***************************************************************************)
(* Variation of the RMS: rms_variation, lines 473-485, on the results of   *)
(* compute_rms, lines 409-416, which returns the pair of the RMS and the   *)
(* turbulence intensity rms / |mean|.  The argument gives, for each column *)
(* of `which` and each subinterval, the pair compute_rms returns there.    *)
(* A variation is the exact fraction num / den with den > 0.               *)
(***************************************************************************)
\* RMS 2 with mean 2, RMS 2 with mean 0.4, RMS 4 with mean 2
RmsResults ==
    {[rms |-> 2, ti |-> 1], [rms |-> 2, ti |-> 5], [rms |-> 4, ti |-> 2]}

SetMin(S) == CHOOSE x \in S : \A y \in S : x <= y

SetMax(S) == CHOOSE x \in S : \A y \in S : y <= x

FracLessEq(a, b) == a.num * b.den <= b.num * a.den

\* np.max over a list of fractions
RECURSIVE FracMax(_)
FracMax(fs) ==
    IF Len(fs) = 1 THEN fs[1]
    ELSE LET rest == FracMax(Tail(fs))
         IN  IF FracLessEq(fs[1], rest) THEN rest ELSE fs[1]

\* lines 478-484 for one column: rmss is the list of the pairs, and np.min
\* and np.max of a list of pairs run over both members of every pair
variation(results) ==
    LET rmss == {results[k].rms : k \in DOMAIN results}
                    \cup {results[k].ti : k \in DOMAIN results}
        minrms == SetMin(rmss)
        maxrms == SetMax(rmss)
    IN  [num |-> Abs(maxrms - minrms), den |-> Abs(minrms)]

rms_variation(results) ==
    FracMax([col \in DOMAIN results |-> variation(results[col])])

RmsCalls ==
    {[fn |-> "rms_variation", args |-> <<results>>, ret |-> <<>>] :
        results \in UNION {[1..cols -> [1..subintervals -> RmsResults]] :
                              cols \in 1..MaxCols,
                              subintervals \in 1..MaxSub}}

CallRmsVariation ==
    /\ pc = "call"
    /\ call.fn = "rms_variation"
    /\ call' = [call EXCEPT !.ret = <<rms_variation(call.args[1])>>]
    /\ pc' = "returned"
    /\ UNCHANGED <<opts, cfg, listing, summary, processes, multiproc, queue,
                   worker, win, numberLeft, success>>

(***************************************************************************)
(* Loading: load_frame, lines 39-62.  A file is the sequence of its        *)
(* TIMESTAMP cells; a record is known by its line.  format = 'mixed'       *)
(* parses each cell by its own format, so two cells written differently    *)
(* may be the same time.  Every cell holds a time that parses.             *)
(***************************************************************************)
MaxRows == 3
MaxTime == 3

TimestampCells == [t : 1..MaxTime, format : {"seconds", "fraction"}]

to_datetime(cell) == cell.t

\* line 47: rows of the same time as an earlier row are dropped
drop_duplicated(rows) ==
    SelectSeq(rows,
              LAMBDA row : \A i \in 1..(row.line - 1) :
                              rows[i].time # row.time)

drop_duplicated_keepLast(rows) ==
    SelectSeq(rows,
              LAMBDA row : \A i \in (row.line + 1)..Len(rows) :
                              rows[i].time # row.time)

RECURSIVE InsertByTime(_, _)
InsertByTime(row, rows) ==
    IF Len(rows) = 0 THEN <<row>>
    ELSE IF row.time <= rows[1].time THEN <<row>> \o rows
    ELSE <<rows[1]>> \o InsertByTime(row, Tail(rows))

\* line 48
RECURSIVE sort_index(_)
sort_index(rows) ==
    IF Len(rows) = 0 THEN <<>>
    ELSE InsertByTime(rows[1], sort_index(Tail(rows)))

set_index(file) ==
    [i \in DOMAIN file |-> [time |-> to_datetime(file[i]), line |-> i]]

load_frame_keepLast(file) == sort_index(drop_duplicated_keepLast(set_index(file)))

load_frame(file) == sort_index(drop_duplicated(set_index(file)))

LoadCalls ==
    {[fn |-> "load_frame", args |-> <<file>>, ret |-> <<>>] :
        file \in SeqsUpTo(TimestampCells, MaxRows)}

CallLoadFrame ==
    /\ pc = "call"
    /\ call.fn = "load_frame"
    /\ call' = [call EXCEPT !.ret = <<load_frame(call.args[1])>>]
    /\ pc' = "returned"
    /\ UNCHANGED <<opts, cfg, listing, summary, processes, multiproc, queue,
                   worker, win, numberLeft, success>>

(***************************************************************************)
(* Integral scales: integral_scales, lines 141-181, on the table built by  *)
(* compute_autocorrs, lines 65-107.                                        *)
(* The table is indexed by lag in seconds (line 101); its rows are at      *)
(* positions 0, 1, ... and lags 0, dt, 2 dt, ...  Autocorrelations are in  *)
(* hundredths, dt in tenths of a second, the time scale in thousandths of  *)
(* a second.  The length scale, the time scale times the mean wind, is     *)
(* left out.                                                               *)
(***************************************************************************)
MaxLags == 3

\* the autocorrelation at lag 0 is 1 (line 92 with lag = 0)
AutocorrValues == {-30, 40, 100}

Tables(rows) ==
    {Raa \in [1..rows -> AutocorrValues] : Raa[1] = 100}

\* 0.5 s, 1 s and 2 s between samples
Spacings == {5, 10, 20}

\* the default of line 144 and the value passed by line 892
Thresholds == {25, 50}

\* lines 163-167: the position of the first value below the threshold, and
\* 0 when the loop ends without one
cutoff_index(Raa, threshold) ==
    LET below == {i \in 0..(Len(Raa) - 1) : Raa[i + 1] < threshold}
    IN  IF below = {} THEN 0
        ELSE CHOOSE i \in below : \A j \in below : i <= j

\* line 174, Raa.loc[:cutoff_index]: a slice by label on the lag index, so
\* it holds the rows whose lag in seconds is at most cutoff_index
loc_upto(Raa, dt, label) ==
    {i \in 0..(Len(Raa) - 1) : i * dt <= label * 10}

RECURSIVE SumRows(_, _)
SumRows(Raa, rows) ==
    IF rows = {} THEN 0
    ELSE LET i == CHOOSE r \in rows : TRUE
         IN  Raa[i + 1] + SumRows(Raa, rows \ {i})

\* lines 157-179 for one column
integral_scale(Raa, dt, threshold) ==
    LET cutoff == cutoff_index(Raa, threshold)
        rows == loc_upto(Raa, dt, cutoff)
    IN  [cutoff |-> cutoff, rows |-> rows, warn |-> cutoff = 0,
         i_time |-> SumRows(Raa, rows) * dt]

integral_scales(tables, dt, threshold) ==
    LET scales == [col \in DOMAIN tables |->
                      integral_scale(tables[col], dt, threshold)]
    IN  [scales |-> scales,
         warn |-> \E col \in DOMAIN tables : scales[col].warn]

ScalesCalls ==
    {[fn |-> "integral_scales", args |-> <<tables, dt, threshold>>,
      ret |-> <<>>] :
        tables \in UNION {[1..cols -> Tables(rows)] :
                             cols \in 1..MaxCols, rows \in 2..MaxLags},
        dt \in Spacings, threshold \in Thresholds}

CallIntegralScales ==
    /\ pc = "call"
    /\ call.fn = "integral_scales"
    /\ call' = [call EXCEPT !.ret =
                   <<integral_scales(call.args[1], call.args[2],
                                     call.args[3])>>]
    /\ pc' = "returned"
    /\ UNCHANGED <<opts, cfg, listing, summary, processes, multiproc, queue,
                   worker, win, numberLeft, success>>

(***************************************************************************)
(* Stability class of the bulk Richardson number: match_ri, lines 227-240, *)
(* and its use in lines 594-606.  Ri is in hundredths.  stability_class is *)
(* the classification by fixed thresholds on Ri, with the thresholds that  *)
(* the bar chart of plots.py, line 33, labels the classes with.  The       *)
(* string f'{stability1}/{stability2}' is the pair of the two classes.     *)
(***************************************************************************)
UnstableBelow == -10
NeutralBelow == 10
StableBelow == 25

stability_class(ri) ==
    IF ri < UnstableBelow THEN "unstable"
    ELSE IF ri < NeutralBelow THEN "neutral"
    ELSE IF ri < StableBelow THEN "stable"
    ELSE "strongly stable"

\* mean and median of the Ri values matched to the window, one or two in
\* each class and none on a threshold
RiValues == {-30, -20, 0, 5, 15, 30}

match_ri_meanOnly(mean_ri, median_ri) ==
    [mean_ri |-> mean_ri, median_ri |-> median_ri,
     stability |-> <<stability_class(mean_ri)>>]

match_ri(mean_ri, median_ri) ==
    LET stability1 == stability_class(mean_ri)
        stability2 == stability_class(median_ri)
    IN  [mean_ri |-> mean_ri, median_ri |-> median_ri,
         stability |-> IF stability1 = stability2 THEN <<stability1>>
                       ELSE <<stability1, stability2>>]

MatchCalls ==
    {[fn |-> "match_ri", args |-> <<mean_ri, median_ri>>, ret |-> <<>>] :
        mean_ri \in RiValues, median_ri \in RiValues}

\* lines 594-606 with a match file: the cells added to the summary row, and
\* ri_string, which goes to the log and to the flux and scales reports
CallMatchRi ==
    /\ pc = "call"
    /\ call.fn = "match_ri"
    /\ call' = [call EXCEPT !.ret =
                   <<[row |-> Match([matchfile |-> "path"], Loaded).row,
                      ri_string |-> match_ri(call.args[1], call.args[2])]>>]
    /\ pc' = "returned"
    /\ UNCHANGED <<opts, cfg, listing, summary, processes, multiproc, queue,
                   worker, win, numberLeft, success>>

(***************************************************************************)
(* Specifications.                                                         *)
(***************************************************************************)
Idle ==
    /\ summary = <<>>
    /\ processes = 0
    /\ multiproc = FALSE
    /\ queue = <<>>
    /\ worker = <<>>
    /\ win = <<>>
    /\ numberLeft = 0
    /\ success = TRUE

Files == {"None", "path"}

\* nproc as passed to analyze_directory: an int, or something else (a
\* string, a float)
NprocValues ==
    {[isInt |-> TRUE, val |-> v] : v \in 0..MaxProc}
    \cup {[isInt |-> FALSE, val |-> MaxProc]}

\* analyze_directory called directly, lines 694-718, nproc left at its default
Configs ==
    [slowfile : Files, matchfile : Files, align : BOOLEAN, plotflux : BOOLEAN,
     saveflux : BOOLEAN, savescales : BOOLEAN, direction : BOOLEAN, qc : BOOLEAN,
     summaryfile : Files, nproc : {[isInt |-> TRUE, val |-> 1]}]

\* the command lines, lines 794-812
Options ==
    [noalign : BOOLEAN, noflux : BOOLEAN, qc : BOOLEAN, direction : BOOLEAN,
     nomatch : BOOLEAN, noslow : BOOLEAN, matchExists : BOOLEAN,
     slowExists : BOOLEAN, nproc : 0..MaxProc]

\* the command line with no option given and both reference files in place
DefaultOptions ==
    [noalign |-> FALSE, noflux |-> FALSE, qc |-> FALSE, direction |-> FALSE,
     nomatch |-> FALSE, noslow |-> FALSE, matchExists |-> TRUE,
     slowExists |-> TRUE, nproc |-> 1]

Next ==
    \/ WriteHeader
    \/ Dispatch
    \/ MapReturn
    \/ CloseJoin
    \/ \E w \in DOMAIN worker : TakeChunk(w)
    \/ \E w \in DOMAIN worker : StartTask(w)
    \/ \E w \in DOMAIN worker : RunStages(w)
    \/ \E w \in DOMAIN worker : AppendOpen(w)
    \/ \E w \in DOMAIN worker : AppendWrite(w)

\* analyze_directory called with any combination of its options
Init ==
    /\ pc = "begin"
    /\ opts = <<>>
    /\ cfg \in Configs
    /\ listing \in SeqsUpTo(Kinds, MaxEntries)
    /\ call = NoCall
    /\ Idle

Spec == Init /\ [][Next]_vars

\* analyze_directory called as the driver calls it by default, with any nproc
InitPool ==
    /\ pc = "begin"
    /\ opts = <<>>
    /\ cfg \in {[MainConfig(DefaultOptions) EXCEPT !.nproc = n] : n \in NprocValues}
    /\ listing \in SeqsUpTo(BatchKinds, MaxFiles)
    /\ call = NoCall
    /\ Idle

SpecPool == InitPool /\ [][Next]_vars

\* the program run from the command line
InitMain ==
    /\ pc = "args"
    /\ opts \in Options
    /\ cfg = <<>>
    /\ listing \in SeqsUpTo(Kinds, MaxEntries)
    /\ call = NoCall
    /\ Idle

NextMain ==
    \/ ParseArgs
    \/ Next

SpecMain == InitMain /\ [][NextMain]_vars

\* a quality-control function called on its own
InitQC ==
    /\ pc = "call"
    /\ opts = <<>>
    /\ cfg = <<>>
    /\ listing = <<>>
    /\ call \in SpoletoCalls \cup AdfCalls \cup CovarCalls \cup RmsCalls
    /\ Idle

NextQC ==
    \/ CallSpoleto
    \/ CallAdfTest
    \/ CallCovarInstationarity
    \/ CallRmsVariation

SpecQC == InitQC /\ [][NextQC]_vars

\* a function of the analysis called on its own
InitFn ==
    /\ pc = "call"
    /\ opts = <<>>
    /\ cfg = <<>>
    /\ listing = <<>>
    /\ call \in ScalesCalls \cup MatchCalls \cup LoadCalls
    /\ Idle

NextFn ==
    \/ CallIntegralScales
    \/ CallMatchRi
    \/ CallLoadFrame

SpecFn == InitFn /\ [][NextFn]_vars

(***************************************************************************)
(* Properties.                                                             *)
(***************************************************************************)
Range(q) == {q[k] : k \in DOMAIN q}

RowsOf(i) == {k \in DOMAIN summary : summary[k].kind = "row" /\ summary[k].id = i}

RowLines == {k \in DOMAIN summary : summary[k].kind = "row"}

HeaderLines == {k \in DOMAIN summary : summary[k].kind = "header"}

Started == pc \in {"headed", "mapping", "mapped", "completed", "raised"}

Ended == pc \in {"completed", "raised"}

FluxOn == cfg.plotflux \/ cfg.saveflux

\* C1: every window whose file loaded reaches Summarized, whatever the
\* option toggles: no window that entered the Loaded stage ends with an
\* exception instead of a summary row.
C1_LoadedWindowIsSummarized ==
    \A i \in DOMAIN win :
        win[i].status = "failed" => "Loaded" \notin Range(win[i].stages)

\* C2: a batch in which exactly one file fails to load, the others being
\* loadable csv files, ends with analyze_directory completed and one summary
\* row for each of the other files.
C2_OneFailureAbortsOnlyThatWindow ==
    (/\ Ended
     /\ Len(listing) >= 2
     /\ Cardinality({i \in DOMAIN listing : listing[i] = "corrupt"}) = 1
     /\ \A i \in DOMAIN listing : listing[i] \in {"csv", "corrupt"})
    => /\ pc = "completed"
       /\ Cardinality(RowLines) = Len(listing) - 1
       /\ \A i \in DOMAIN listing : listing[i] = "csv" => win[i].status = "done"

\* C3: each window that completes has appended exactly one row to the summary
\* file, never zero and never two, and no other window has a row, whatever
\* the order in which the workers finish.
C3_ExactlyOneRowPerCompletedWindow ==
    \A i \in DOMAIN win :
        /\ Cardinality(RowsOf(i)) <= 1
        /\ win[i].status = "done" <=> Cardinality(RowsOf(i)) = 1

\* C3 witness: two completed windows whose rows stand in the file in the
\* opposite of the submission order.
C3_RowsOutOfSubmissionOrder ==
    \E a \in RowLines : \E b \in RowLines :
        /\ a < b
        /\ summary[a].id > summary[b].id
        /\ win[summary[a].id].status = "done"
        /\ win[summary[b].id].status = "done"

\* C4: at no time do two workers have the summary file open for appending.
C4_SingleOwnerOfSummaryFile ==
    Cardinality({i \in DOMAIN win : win[i].status = "open"}) <= 1

\* the header column that a field of a row belongs under
ColumnOf(field) ==
    CASE field = "starttime" -> "start"
      [] field = "endtime" -> "end"
      [] field = "mean_Ux" -> "mean_u"
      [] field = "mean_Uy" -> "mean_v"
      [] field = "mean_Uz" -> "mean_w"
      [] field = "slow_mean_Ux" -> "slow_mean_u"
      [] field = "slow_mean_Uy" -> "slow_mean_v"
      [] field = "mean_alpha" -> "alpha_mean"
      [] field = "median_alpha" -> "alpha_median"
      [] field = "mean_ri" -> "Rib_mean"
      [] field = "median_ri" -> "Rib_median"
      [] field = "mean_lapse" -> "lapse_mean"
      [] field = "median_lapse" -> "lapse_median"
      [] field = "rms" -> "rms"
      [] field = "rms_slow" -> "slow_rms"
      [] field = "ti" -> "ti"
      [] field = "ti_slow" -> "slow_ti"
      [] field = "tke" -> "tke"
      [] field = "Flux Ri" -> "Rif"
      [] field = "Mean eddy u momentum flux" -> "wu"
      [] field = "Mean eddy v momentum flux" -> "wv"
      [] field = "Mean eddy heat flux" -> "wt"
      [] field = "Obukhov length" -> "L"
      [] field = "zeta" -> "zeta"
      [] field = "Friction velocity" -> "ustar"
      [] field = "Vertical wind gradient" -> "ugrad"
      [] field = "length_scale" -> "length_scale"
      [] field = "delta_dir" -> "delta_dir"
      [] field = "rms_change" -> "rms_change"
      [] field = "covar_instation" -> "ss_dev"
      [] field = "itc_deviation" -> "itc_dev"
      [] field = "spoleto_flag" -> "sflag"
      [] field = "adf_flag" -> "urflag"
      [] OTHER -> "?"

HeaderReflects(c, cols) ==
    /\ {"start", "end", "mean_u", "mean_v", "mean_w", "rms", "ti", "tke"}
           \subseteq Range(cols)
    /\ {"slow_mean_u", "slow_mean_v", "slow_rms", "slow_ti"} \subseteq Range(cols)
           <=> c.slowfile # "None"
    /\ {"slow_mean_u", "slow_mean_v", "slow_rms", "slow_ti"} \cap Range(cols) # {}
           <=> c.slowfile # "None"
    /\ "alpha_mean" \in Range(cols) <=> c.matchfile # "None"
    /\ "Rib_mean" \in Range(cols) <=> c.matchfile # "None"
    /\ "lapse_mean" \in Range(cols) <=> c.matchfile # "None"
    /\ "Rif" \in Range(cols) <=> c.saveflux
    /\ "ustar" \in Range(cols) <=> c.saveflux
    /\ "length_scale" \in Range(cols) <=> c.savescales
    /\ "delta_dir" \in Range(cols) <=> c.direction
    /\ "sflag" \in Range(cols) <=> c.qc
    /\ "urflag" \in Range(cols) <=> c.qc

HeaderFirstAndOnce ==
    /\ summary # <<>>
    /\ HeaderLines = {1}
    /\ HeaderReflects(cfg, summary[1].fields)

NothingDispatched == win = <<>> /\ queue = <<>> /\ processes = 0

\* C6 as stated: analyze_directory writes the header exactly once in every
\* run, before any task is dispatched; it is the first line of the summary
\* file and holds an optional column group exactly when its option is on.
C6_HeaderOnceInEveryRun ==
    /\ pc = "begin" => NothingDispatched /\ summary = <<>>
    /\ Started => HeaderFirstAndOnce

\* C6 amended: when a summary file is configured, analyze_directory writes
\* the header exactly once, before any task is dispatched; it is the first
\* line of the summary file and holds an optional column group exactly when
\* its option is on.  Without a summary file no header is written.
C6_HeaderOnceWhenSummaryFile ==
    /\ pc = "begin" => NothingDispatched /\ summary = <<>>
    /\ pc = "headed" => NothingDispatched
    /\ Started /\ cfg.summaryfile # "None" => HeaderFirstAndOnce
    /\ Started /\ cfg.summaryfile = "None" => summary = <<>>

\* C6 witness: tasks are running, the header is the first line and a row
\* follows it.
C6_RowAfterHeader ==
    /\ pc = "mapping"
    /\ HeaderLines = {1}
    /\ RowLines # {}
    /\ cfg.saveflux /\ ~cfg.plotflux

\* C7: the configuration handed to analyze_directory never has qc on with
\* the flux computation off, for any command line.
C7_QcImpliesFlux ==
    pc # "args" => (cfg.qc => FluxOn)

\* C8: when a channel needed for the fluxes has fewer than 2 non-missing
\* samples, the flux computation fails, the flux and QC stages of that
\* window are abandoned, and the window appends a partial row.
C8_FluxErrorAbandonsFluxAndQC ==
    \A i \in DOMAIN win :
        (listing[i] = "sparse" /\ FluxOn /\ win[i].status \in {"staged", "open", "done"})
        => /\ win[i].derived = "none"
           /\ "QCChecked" \notin Range(win[i].stages)
           /\ "Flux Ri" \notin Range(win[i].row)

Analyzing == {i \in DOMAIN win : win[i].status \in {"loaded", "staged", "open"}}

Enqueued ==
    UNION ({Range(queue[k]) : k \in DOMAIN queue}
           \cup {Range(worker[w]) : w \in DOMAIN worker})

\* C9: the pool has the configured size, and size 1 for any nproc that is
\* not an int greater than 1; never are more windows being analyzed than
\* that; every task is on the pool's queue from the moment of dispatch until
\* it has run.
C9_PoolSizeBoundsConcurrency ==
    pc \in {"mapping", "mapped", "completed", "raised"} =>
        /\ processes >= 1
        /\ (cfg.nproc.isInt /\ cfg.nproc.val > 1) => processes = cfg.nproc.val
        /\ ~(cfg.nproc.isInt /\ cfg.nproc.val > 1) => processes = 1
        /\ Cardinality(Analyzing) <= processes
        /\ Cardinality(Analyzing) <=
               (IF cfg.nproc.isInt /\ cfg.nproc.val > 1 THEN cfg.nproc.val ELSE 1)
        /\ Len(win) = Len(listing)
        /\ \A i \in DOMAIN win : win[i].status = "queued" => i \in Enqueued

\* C9 witness: as many windows under analysis as the pool has workers, more
\* than one, while further tasks wait on the queue.
C9_PoolFullTasksWaiting ==
    /\ pc = "mapping"
    /\ processes > 1
    /\ Cardinality(Analyzing) = processes
    /\ queue # <<>>

RealMax(a, b) == IF a.tenths >= b.tenths THEN a.tenths ELSE b.tenths

\* C10: spoleto returns 0 when the larger deviation is below 0.3, 1 when it
\* is at least 0.3 and below 1.0, and 2 otherwise; 0.3 itself gives 1 and 1.0
\* itself gives 2; the result is always 0, 1 or 2.
C10_SpoletoThresholds ==
    (call.fn = "spoleto" /\ call.ret # <<>>) =>
        LET a == call.args[1]
            b == call.args[2]
            r == call.ret[1]
        IN  /\ r \in {0, 1, 2}
            /\ (~a.nan /\ ~b.nan) =>
                   /\ RealMax(a, b) < 3 => r = 0
                   /\ (RealMax(a, b) >= 3 /\ RealMax(a, b) < 10) => r = 1
                   /\ RealMax(a, b) >= 10 => r = 2
            /\ (a.nan /\ b.nan) => r = 2

\* C10 witness: the boundary 0.3 gave flag 1.
C10_BoundaryGivesOne ==
    /\ call.fn = "spoleto"
    /\ call.args = <<Num(3), Num(0)>>
    /\ call.ret = <<1>>

\* C11: spoleto is monotonic in each argument: the flag returned for (a, b)
\* is no larger than the flag for (a', b) with a <= a', and no larger than
\* the flag for (a, b') with b <= b'.
C11_SpoletoMonotonic ==
    (pc = "returned" /\ call.fn = "spoleto") =>
        \A d \in Devs :
            /\ LessEq(call.args[1], d) =>
                   call.ret[1] <= spoleto(d, call.args[2])
            /\ LessEq(call.args[2], d) =>
                   call.ret[1] <= spoleto(call.args[1], d)

\* a call that returned 0 just below the first threshold, where raising the
\* first argument by one step raises the flag
C11_FlagRisesWithArgument ==
    /\ pc = "returned"
    /\ call.fn = "spoleto"
    /\ call.args = <<Num(HighQualityBelow - 1), Num(0)>>
    /\ call.ret = <<0>>
    /\ spoleto(Num(HighQualityBelow), call.args[2]) = 1

AdfFails(which, upTo) ==
    {col \in 1..upTo : /\ ~which[col].raised
                        /\ (which[col].statAbove \/ which[col].pAbove)}

\* C12: when adfuller raises on a channel, adf_test goes on: the fail count
\* holds only the channels that were tested and failed, the channel after
\* the raising one is tested, every channel is tested unless flag 2 ended
\* the loop, and the flag is 2 if at least min(2, channel count) of the
\* other channels fail, else 0 if none fails and 1 if some do.
C12_ExceptionCountsAsPass ==
    (/\ pc = "returned"
     /\ call.fn = "adf_test"
     /\ \E col \in DOMAIN call.args[1] : call.args[1][col].raised) =>
        LET which == call.args[1]
            ret == call.ret[1]
            n == Len(which)
            failing == Cardinality(AdfFails(which, n))
        IN  /\ ret.fails = Cardinality(AdfFails(which, ret.tested))
            /\ \A col \in 1..ret.tested :
                   (which[col].raised /\ col < n) => ret.tested >= col + 1
            /\ ret.flag # 2 => ret.tested = n
            /\ ret.flag = IF failing >= (IF n < 2 THEN n ELSE 2) THEN 2
                          ELSE IF failing = 0 THEN 0 ELSE 1

\* the first channel raises, the second fails, the third passes: flag 1
C12_RaiseThenFailThenPass ==
    /\ pc = "returned"
    /\ call.fn = "adf_test"
    /\ Len(call.args[1]) = 3
    /\ call.args[1][1].raised
    /\ AdfFails(call.args[1], 3) = {2}
    /\ call.ret[1] = [flag |-> 1, tested |-> 3, fails |-> 1]

Below(Raa, threshold) ==
    {i \in 0..(Len(Raa) - 1) : Raa[i + 1] < threshold}

\* C13: in integral_scales, a column with no value below the threshold gets
\* the last position of the table as its cutoff and its time scale from
\* every row of the table, and the warning is returned raised; the warning
\* is raised only when some column has no value below the threshold.
C13_NoCutoffUsesWholeTable ==
    (pc = "returned" /\ call.fn = "integral_scales") =>
        LET tables == call.args[1]
            ret == call.ret[1]
        IN  /\ \A col \in DOMAIN tables :
                   Below(tables[col], call.args[3]) = {} =>
                       /\ ret.scales[col].cutoff = Len(tables[col]) - 1
                       /\ ret.scales[col].rows = 0..(Len(tables[col]) - 1)
                       /\ ret.warn
            /\ ret.warn =>
                   \E col \in DOMAIN tables :
                       Below(tables[col], call.args[3]) = {}

\* C17: in integral_scales, the cutoff of a column is the first position
\* whose value is below the threshold, and the time scale is the sum of
\* the values at positions 0 to the cutoff, and of no later one, times the
\* spacing of the first two lags.
C17_SumStopsAtCutoff ==
    (pc = "returned" /\ call.fn = "integral_scales") =>
        LET tables == call.args[1]
            ret == call.ret[1]
        IN  \A col \in DOMAIN tables :
                LET below == Below(tables[col], call.args[3])
                    scale == ret.scales[col]
                IN  below # {} =>
                        /\ scale.cutoff \in below
                        /\ \A i \in below : scale.cutoff <= i
                        /\ scale.rows = 0..scale.cutoff
                        /\ scale.i_time =
                               SumRows(tables[col], 0..scale.cutoff)
                                   * call.args[2]

C15_ZeroCovarianceGivesSentinel ==
    (/\ pc = "returned"
     /\ call.fn = "covar_instationarity"
     /\ covariance(call.args[1]).num = 0) =>
        /\ ~call.ret[1].divided
        /\ call.ret[1].kind = "sentinel"

RmsOnlyVariation(results) ==
    LET rmss == {results[k].rms : k \in DOMAIN results}
    IN  [num |-> SetMax(rmss) - SetMin(rmss), den |-> SetMin(rmss)]

\* C18: rms_variation returns the largest, over the columns, of
\* (max - min) / min taken over the RMS of the column in each subinterval,
\* and over nothing else.
C18_VariationOfRmsOnly ==
    (pc = "returned" /\ call.fn = "rms_variation") =>
        LET results == call.args[1]
            ret == call.ret[1]
        IN  /\ \A col \in DOMAIN results :
                   FracLessEq(RmsOnlyVariation(results[col]), ret)
            /\ \E col \in DOMAIN results :
                   FracLessEq(ret, RmsOnlyVariation(results[col]))

StageRank(stage) ==
    CASE stage = "Loaded" -> 1
      [] stage = "Aligned" -> 2
      [] stage = "Matched" -> 3
      [] stage = "Fluxed" -> 4
      [] stage = "ScalesComputed" -> 5
      [] stage = "QCChecked" -> 6
      [] stage = "Summarized" -> 7
      [] OTHER -> 0

StageEnabled(c, stage) ==
    CASE stage = "Aligned" -> c.align
      [] stage = "Matched" -> c.matchfile # "None"
      [] stage = "Fluxed" -> c.plotflux \/ c.saveflux
      [] stage = "ScalesComputed" -> c.savescales
      [] stage = "QCChecked" -> c.qc
      [] OTHER -> TRUE

NamedStages ==
    {"Loaded", "Aligned", "Matched", "Fluxed", "ScalesComputed", "QCChecked",
     "Summarized"}

\* C19: the stages a window has run are in the order Loaded, Aligned,
\* Matched, Fluxed, ScalesComputed, QCChecked, Summarized, none of them
\* twice and none that is switched off; and a window that reached
\* Summarized has run every stage that is switched on before it.
C19_StagesInOrder ==
    \A i \in DOMAIN win :
        LET stages == win[i].stages
        IN  /\ \A a \in DOMAIN stages : \A b \in DOMAIN stages :
                   (a < b /\ stages[a] \in NamedStages
                          /\ stages[b] \in NamedStages) =>
                       StageRank(stages[a]) < StageRank(stages[b])
            /\ \A a \in DOMAIN stages :
                   stages[a] \in NamedStages => StageEnabled(cfg, stages[a])
            /\ "Summarized" \in Range(stages) =>
                   /\ stages[Len(stages)] = "Summarized"
                   /\ \A stage \in NamedStages :
                          StageEnabled(cfg, stage) => stage \in Range(stages)

\* a window that ran all seven stages
C19_AllSevenStages ==
    \E i \in DOMAIN win :
        /\ win[i].status = "done"
        /\ SelectSeq(win[i].stages, LAMBDA stage : stage \in NamedStages) =
               <<"Loaded", "Aligned", "Matched", "Fluxed", "ScalesComputed",
                 "QCChecked", "Summarized">>

\* C20: a window in which a stage raised has no row in the summary file,
\* and every row of the file is whole: it comes from a window that raised
\* nothing and has a cell for every column of the header.
C20_FailedWindowAppendsNoRow ==
    \A i \in DOMAIN win :
        /\ win[i].status = "failed" => RowsOf(i) = {}
        /\ \A k \in RowsOf(i) :
               /\ win[i].status = "done"
               /\ win[i].exc = "none"
               /\ Len(summary[k].fields) = Len(HeaderColumns(cfg))

\* a window that failed after its flux stage, in a run that has ended
C20_FailedAfterFluxNoRow ==
    /\ Ended
    /\ \E i \in DOMAIN win :
           /\ win[i].status = "failed"
           /\ "Fluxed" \in Range(win[i].stages)
           /\ RowsOf(i) = {}

\* C21: the configuration the command line hands to analyze_directory has
\* direction on only with align on and a slow file, so that no window
\* reaches the write of delta_dir to its row without having computed it.
C21_DirectionImpliesAlignAndSlow ==
    pc # "args" =>
        /\ cfg.direction => (cfg.align /\ cfg.slowfile # "None")
        /\ \A i \in DOMAIN win : win[i].exc # "NameError: delta_dir"

Dispatched == pc \in {"mapping", "mapped", "completed", "raised"}

Ascending(q) == \A k \in 1..(Len(q) - 1) : q[k] + 1 = q[k + 1]

====
